---- MODULE Spec2Model ----
(***************************************************************************)
(* Patient Record Service: the HTTP pipeline (auth middleware, handlers),  *)
(* the service layer (patientService.ts) and its two collaborators, the    *)
(* DynamoDB table (primary store) and the OpenSearch index (secondary      *)
(* index).  Every await on a collaborator is a separate step, so requests  *)
(* in flight interleave at exactly the points where the Node event loop    *)
(* can switch between them.                                                *)
(***************************************************************************)
EXTENDS Integers, Sequences, FiniteSets, TLC

VARIABLES table, index, configured, clock, issued, reqs, pager, server

vars == <<table, index, configured, clock, issued, reqs, pager, server>>

(* ------------------------------ bounds --------------------------------- *)

\* largest reading of the millisecond clock
MaxClock == 2
\* items one page of a DynamoDB Scan holds (a page ends after 1 MB of data
\* read; the model counts it in items)
ScanPageItems == 1

\* the patientIds in play (they stand for UUIDs)
IDs == {1, 2}
\* the requests of one run: two, which may overlap or follow one another
Slots == {1, 2}

(* --------------------------- small helpers ------------------------------ *)

\* the empty object {} / an absent value
Empty == <<>>

Restrict(f, S) == [k \in S |-> f[k]]

\* String.prototype.startsWith on a string given as its characters
StartsWith(s, p) == Len(s) >= Len(p) /\ SubSeq(s, 1, Len(p)) = p

\* String.prototype.substring(n)
Substring(s, n) == SubSeq(s, n + 1, Len(s))

\* String.prototype.includes on a message given as its words
Includes(msg, needle) ==
    \E i \in 1..(Len(msg) - Len(needle) + 1) :
        SubSeq(msg, i, i + Len(needle) - 1) = needle

\* Array element test, as DynamoDB's contains(list, value) applies it
Contains(list, v) == \E i \in 1..Len(list) : list[i] = v

Min(a, b) == IF a <= b THEN a ELSE b

Digits == <<"0", "1", "2", "3", "4", "5", "6", "7", "8", "9">>

IsDigit(c) == \E i \in 1..Len(Digits) : Digits[i] = c

DigitValue(c) == (CHOOSE i \in 1..Len(Digits) : Digits[i] = c) - 1

RECURSIVE ParseDigits(_, _)
ParseDigits(s, acc) ==
    IF s = <<>> \/ ~IsDigit(Head(s)) THEN acc
    ELSE ParseDigits(Tail(s), 10 * acc + DigitValue(Head(s)))

\* parseInt on a string given as its characters (undefined: no characters):
\* the leading digits' value, NaN when there are none
ParseInt(s) ==
    IF s = <<>> \/ ~IsDigit(Head(s)) THEN [nan |-> TRUE, value |-> 0]
    ELSE [nan |-> FALSE, value |-> ParseDigits(s, 0)]

\* JSON.stringify of a key object {patientId: k}, as its tokens
Stringify(key) == <<"{", "patientId", ":", key.patientId, "}">>

\* JSON.parse of a text given as its tokens: the key object, or a SyntaxError
JSONParse(text) ==
    IF /\ Len(text) = 5
       /\ text[1] = "{" /\ text[2] = "patientId" /\ text[3] = ":"
       /\ text[5] = "}"
    THEN [ok |-> TRUE, value |-> [patientId |-> text[4]]]
    ELSE [ok |-> FALSE, value |-> Empty]

(* ------------------------------ inputs --------------------------------- *)

FieldNames == {"name", "address", "conditions", "allergies"}

\* a POST body that also carries a patientId and timestamps of the caller's
ForgedBody ==
    [name |-> "n1", address |-> "ad1", conditions |-> <<"c1">>,
     allergies |-> <<"al1">>, patientId |-> 0, createdAt |-> 0,
     updatedAt |-> 0]

\* POST bodies: all four fields or all but one, strings possibly empty,
\* arrays possibly empty; and the forged one
CreateBodies ==
    { Restrict(full, S) :
        full \in [name : {"", "n1"}, address : {"ad1"},
                  conditions : {<<>>, <<"c1">>}, allergies : {<<"al1">>}],
        S \in { T \in SUBSET FieldNames : Cardinality(T) >= 3 } }
    \cup {ForgedBody}

\* PUT bodies: no field, one field, or all four
UpdateBodies ==
    { Restrict(full, S) :
        full \in [name : {"n2"}, address : {"ad2"},
                  conditions : {<<"c2">>}, allergies : {<<"al2">>}],
        S \in { T \in SUBSET FieldNames : Cardinality(T) \in {0, 1, 4} } }

\* listPatientsHandler's default limit
DefaultLimit == 50

\* ?limit= values of GET /api/patients, as characters (none: no parameter)
LimitParams == { <<>>, <<"0">>, <<"1">>, <<"2">>, <<"3">> }

\* query objects of GET /api/patients: no parameter, a limit, a limit with
\* the key of record 1 as lastKey, a lastKey that is no JSON
ListQueries ==
    { Empty,
      [limit |-> <<"1">>],
      [limit |-> <<"1">>, lastKey |-> Stringify([patientId |-> 1])],
      [lastKey |-> <<"x">>] }

\* ?address= values ("" stands for a missing or empty parameter)
AddressQueries == {"", "ad1"}

\* ?condition= values ("" stands for a missing or empty parameter)
ConditionQueries == {"", "c1", "c2"}

BearerPrefix == <<"B", "e", "a", "r", "e", "r", " ">>

\* request header objects: no Authorization header, an empty one, a
\* non-Bearer one, a Bearer header with a rejected token, one with a good token
HeaderSets ==
    { Empty,
      [authorization |-> <<>>],
      [authorization |-> <<"B", "a", "s", "i", "c", " ", "g">>],
      [authorization |-> BearerPrefix \o <<"b">>],
      [authorization |-> BearerPrefix \o <<"g">>] }

\* tokens the identity provider (CognitoJwtVerifier) accepts
ValidTokens == { <<"g">> }

Ops == {"create", "get", "update", "delete", "condition", "list", "address"}

ProtectedOps == {"create", "update", "delete"}

(* --------------------------- error messages ----------------------------- *)

MsgNoFields == <<"No", "fields", "to", "update">>

\* ConditionalCheckFailedException.message of the AWS SDK
MsgConditional == <<"The", "conditional", "request", "failed">>

\* any other failure of docClient.send (network, throttling, credentials)
MsgUnavailable == <<"connect", "ECONNREFUSED">>

MsgInvalidToken == <<"Invalid", "or", "expired", "token">>

(* ----------------------- the primary store (DynamoDB) ------------------- *)

\* PutCommand without its ConditionExpression: DynamoDB's default overwrite
PutItemOverwrite(tbl, item) ==
    [ok |-> TRUE,
     table |-> [k \in DOMAIN tbl \cup {item.patientId} |->
                   IF k = item.patientId THEN item ELSE tbl[k]],
     error |-> Empty]

\* PutCommand with ConditionExpression attribute_not_exists(patientId)
PutItem(tbl, item) ==
    IF item.patientId \in DOMAIN tbl
    THEN [ok |-> FALSE, table |-> tbl, error |-> MsgConditional]
    ELSE [ok |-> TRUE,
          table |-> [k \in DOMAIN tbl \cup {item.patientId} |->
                        IF k = item.patientId THEN item ELSE tbl[k]],
          error |-> Empty]

\* a point lookup served from the search index instead of the table
GetItemFromIndex(tbl, patientId) ==
    IF patientId \in DOMAIN index THEN index[patientId] ELSE Empty

\* GetCommand: response.Item, absent when there is no such key
GetItem(tbl, patientId) ==
    IF patientId \in DOMAIN tbl THEN tbl[patientId] ELSE Empty

\* UpdateItem without its ConditionExpression: DynamoDB's default upsert
UpdateItemUpsert(tbl, patientId, sets) ==
    LET old == IF patientId \in DOMAIN tbl THEN tbl[patientId]
               ELSE [patientId |-> patientId]
        new == [k \in DOMAIN old \cup DOMAIN sets |->
                   IF k \in DOMAIN sets THEN sets[k] ELSE old[k]]
    IN [ok |-> TRUE,
        table |-> [k \in DOMAIN tbl \cup {patientId} |->
                      IF k = patientId THEN new ELSE tbl[k]],
        attributes |-> new,
        error |-> Empty]

\* UpdateItem writing the whole item from the request (a put, not a SET)
UpdateItemReplace(tbl, patientId, sets) ==
    IF patientId \notin DOMAIN tbl
    THEN [ok |-> FALSE, table |-> tbl, attributes |-> Empty,
          error |-> MsgConditional]
    ELSE LET new == [k \in {"patientId"} \cup DOMAIN sets |->
                        IF k = "patientId" THEN patientId ELSE sets[k]]
         IN [ok |-> TRUE,
             table |-> [tbl EXCEPT ![patientId] = new],
             attributes |-> new,
             error |-> Empty]

\* an update that writes every field from the request, a field the request
\* left out being written empty
UpdateItemBlankOthers(tbl, patientId, sets) ==
    IF patientId \notin DOMAIN tbl
    THEN [ok |-> FALSE, table |-> tbl, attributes |-> Empty,
          error |-> MsgConditional]
    ELSE LET old == tbl[patientId]
             new == [k \in DOMAIN old \cup DOMAIN sets |->
                        IF k \in DOMAIN sets THEN sets[k]
                        ELSE IF k \in {"name", "address"} THEN ""
                        ELSE IF k \in {"conditions", "allergies"} THEN <<>>
                        ELSE old[k]]
         IN [ok |-> TRUE,
             table |-> [tbl EXCEPT ![patientId] = new],
             attributes |-> new,
             error |-> Empty]

\* UpdateCommand with ReturnValues UPDATED_NEW: Attributes holds only the
\* attributes the SET expression wrote
UpdateItemUpdatedNew(tbl, patientId, sets) ==
    IF patientId \notin DOMAIN tbl
    THEN [ok |-> FALSE, table |-> tbl, attributes |-> Empty,
          error |-> MsgConditional]
    ELSE LET old == tbl[patientId]
             new == [k \in DOMAIN old \cup DOMAIN sets |->
                        IF k \in DOMAIN sets THEN sets[k] ELSE old[k]]
         IN [ok |-> TRUE,
             table |-> [tbl EXCEPT ![patientId] = new],
             attributes |-> sets,
             error |-> Empty]

\* UpdateCommand: SET of the attributes in sets, ConditionExpression
\* attribute_exists(patientId), ReturnValues ALL_NEW
UpdateItem(tbl, patientId, sets) ==
    IF patientId \notin DOMAIN tbl
    THEN [ok |-> FALSE, table |-> tbl, attributes |-> Empty,
          error |-> MsgConditional]
    ELSE LET old == tbl[patientId]
             new == [k \in DOMAIN old \cup DOMAIN sets |->
                        IF k \in DOMAIN sets THEN sets[k] ELSE old[k]]
         IN [ok |-> TRUE,
             table |-> [tbl EXCEPT ![patientId] = new],
             attributes |-> new,
             error |-> Empty]

\* DeleteCommand with ConditionExpression attribute_exists(patientId)
DeleteItem(tbl, patientId) ==
    IF patientId \notin DOMAIN tbl
    THEN [ok |-> FALSE, table |-> tbl, error |-> MsgConditional]
    ELSE [ok |-> TRUE,
          table |-> [k \in DOMAIN tbl \ {patientId} |-> tbl[k]],
          error |-> Empty]

\* The keys one Scan call evaluates: DynamoDB reads the table in its own key
\* order (here: ascending) and stops after one page; the FilterExpression is
\* applied to what was read.  The code passes no ExclusiveStartKey.
FirstPage(tbl) ==
    { k \in DOMAIN tbl :
        Cardinality({ j \in DOMAIN tbl : j < k }) < ScanPageItems }

\* ScanCommand with FilterExpression contains(#conditions, :condition):
\* response.Items of the single call the code makes
ScanByCondition(tbl, condition) ==
    { tbl[k] : k \in { j \in FirstPage(tbl) :
                         Contains(tbl[j].conditions, condition) } }

\* ScanCommand with Limit and ExclusiveStartKey: DynamoDB evaluates the items
\* after the start key in its key order and stops after Limit items or one
\* page; LastEvaluatedKey is the last key evaluated when it stopped on the
\* Limit (also when that was the table's last item) or before the end
ScanPage(tbl, limit, startKey) ==
    LET rest == { k \in DOMAIN tbl :
                    startKey = Empty \/ k > startKey.patientId }
        n == Min(limit, ScanPageItems)
        read == { k \in rest : Cardinality({ j \in rest : j < k }) < n }
        last == CHOOSE k \in read : \A j \in read : j <= k
    IN [items |-> { tbl[k] : k \in read },
        lastKey |-> IF read # {} /\ (Cardinality(read) = limit \/ read # rest)
                    THEN [patientId |-> last]
                    ELSE Empty]

\* QueryCommand on the AddressIndex with KeyConditionExpression
\* address = :address: response.Items of the single call
QueryByAddress(tbl, address) ==
    { tbl[k] : k \in { j \in FirstPage(tbl) : tbl[j].address = address } }

(* --------------------- the secondary index (OpenSearch) ----------------- *)

\* getOpenSearchClient(): null when OPENSEARCH_DOMAIN is not set
getOpenSearchClient(cfg) == cfg

\* indexPatient calling the index with op_type create, which leaves a
\* document that is already there as it is (the 409 is caught like any error)
indexPatientCreateOnly(idx, patient, cfg, ok) ==
    IF ~getOpenSearchClient(cfg)
    THEN [index |-> idx, calls |-> 0, threw |-> FALSE]
    ELSE IF "patientId" \notin DOMAIN patient
    THEN [index |-> idx, calls |-> 0, threw |-> FALSE]
    ELSE IF ok /\ patient.patientId \notin DOMAIN idx
    THEN [index |-> [k \in DOMAIN idx \cup {patient.patientId} |->
                        IF k = patient.patientId THEN patient ELSE idx[k]],
          calls |-> 1, threw |-> FALSE]
    ELSE [index |-> idx, calls |-> 1, threw |-> FALSE]

\* indexPatient: skipped without a client; client.index inside try/catch,
\* so a failed call is logged and nothing is thrown (nor is the TypeError of
\* reading patient.patientId when patient is undefined).  ok is the outcome
\* of the index call.
indexPatient(idx, patient, cfg, ok) ==
    IF ~getOpenSearchClient(cfg)
    THEN [index |-> idx, calls |-> 0, threw |-> FALSE]
    ELSE IF "patientId" \notin DOMAIN patient
    THEN [index |-> idx, calls |-> 0, threw |-> FALSE]
    ELSE IF ok
    THEN [index |-> [k \in DOMAIN idx \cup {patient.patientId} |->
                        IF k = patient.patientId THEN patient ELSE idx[k]],
          calls |-> 1, threw |-> FALSE]
    ELSE [index |-> idx, calls |-> 1, threw |-> FALSE]

\* deletePatientIndex: skipped without a client; a not_found answer (the
\* index holds no such document) and any other failure of client.delete
\* (ok = FALSE) are both caught
deletePatientIndex(idx, patientId, cfg, ok) ==
    IF ~getOpenSearchClient(cfg)
    THEN [index |-> idx, calls |-> 0, threw |-> FALSE, notFound |-> FALSE]
    ELSE IF ok /\ patientId \in DOMAIN idx
    THEN [index |-> [k \in DOMAIN idx \ {patientId} |-> idx[k]],
          calls |-> 1, threw |-> FALSE, notFound |-> FALSE]
    ELSE [index |-> idx, calls |-> 1, threw |-> FALSE,
          notFound |-> (ok /\ patientId \notin DOMAIN idx)]

\* what the multi_match query (conditions^2, name, address) matches; the
\* analyzers and the fuzziness are the search service's own
Matches(doc, condition) ==
    \/ Contains(doc.conditions, condition)
    \/ doc.name = condition
    \/ doc.address = condition

\* size: 100 of the search body
SearchSize == 100

\* the hits of a query: the matching documents, the first SearchSize of
\* them when there are more (their order is the search service's ranking,
\* here the key order)
SearchHits(idx, condition) ==
    LET found == { j \in DOMAIN idx : Matches(idx[j], condition) }
    IN { idx[k] : k \in { j \in found :
                   Cardinality({ i \in found : i < j }) < SearchSize } }

\* searchPatientsByCondition: [] without a client; the hits' _source on
\* success; the error is rethrown on failure
searchPatientsByCondition(idx, condition, cfg, ok) ==
    IF ~getOpenSearchClient(cfg)
    THEN [hits |-> {}, calls |-> 0, threw |-> FALSE]
    ELSE IF ok
    THEN [hits |-> SearchHits(idx, condition), calls |-> 1, threw |-> FALSE]
    ELSE [hits |-> {}, calls |-> 1, threw |-> TRUE]

(* --------------------------- response envelope -------------------------- *)

\* res.status(status).json({success: true, data, timestamp})
Success(status, data) ==
    [status |-> status, success |-> TRUE, data |-> data, timestamp |-> clock]

\* res.status(status).json({success: false, error, timestamp})
Failure(status, error) ==
    [status |-> status, success |-> FALSE, error |-> error,
     timestamp |-> clock]

(* ------------------------------ middleware ------------------------------ *)

\* accessTokenVerifier.verify: the identity provider's verdict on a token
verifyAccessToken(token) == token \in ValidTokens

\* authMiddleware with the return after the first 401 missing
authMiddlewareNoReturn(headers) ==
    IF "authorization" \notin DOMAIN headers \/ headers.authorization = <<>>
    THEN [next |-> TRUE,
          sent |-> <<Failure(401, <<"Authorization", "header", "is",
                                    "missing">>)>>]
    ELSE IF ~StartsWith(headers.authorization, BearerPrefix)
    THEN [next |-> FALSE,
          sent |-> <<Failure(401, <<"Invalid", "authorization", "header",
                                    "format">>)>>]
    ELSE IF verifyAccessToken(Substring(headers.authorization, 7))
    THEN [next |-> TRUE, sent |-> <<>>]
    ELSE [next |-> FALSE,
          sent |-> <<Failure(401, <<"Unauthorized:">> \o MsgInvalidToken)>>]

\* authMiddleware: the response it sends (if any) and whether it calls next()
authMiddleware(headers) ==
    IF "authorization" \notin DOMAIN headers \/ headers.authorization = <<>>
    THEN [next |-> FALSE,
          sent |-> <<Failure(401, <<"Authorization", "header", "is",
                                    "missing">>)>>]
    ELSE IF ~StartsWith(headers.authorization, BearerPrefix)
    THEN [next |-> FALSE,
          sent |-> <<Failure(401, <<"Invalid", "authorization", "header",
                                    "format">>)>>]
    ELSE IF verifyAccessToken(Substring(headers.authorization, 7))
    THEN [next |-> TRUE, sent |-> <<>>]
    ELSE [next |-> FALSE,
          sent |-> <<Failure(401, <<"Unauthorized:">> \o MsgInvalidToken)>>]

(* ----------------------------- service layer ---------------------------- *)

\* new Date(): a reading of the millisecond clock, not below the last one
ClockReads == { t \in {clock, clock + 1} : t <= MaxClock }

\* uuidv4(): an identifier not seen before, neither generated nor named in
\* a request (version-4 UUIDs are taken not to repeat and not to be guessed)
UuidChoices == IDs \ issued

\* createPatientHandler's validation: !name || !address || !conditions ||
\* !allergies ("" is falsy, an array is truthy even when empty)
createInvalid(body) ==
    \/ "name" \notin DOMAIN body \/ body.name = ""
    \/ "address" \notin DOMAIN body \/ body.address = ""
    \/ "conditions" \notin DOMAIN body
    \/ "allergies" \notin DOMAIN body

\* createPatientHandler: the CreatePatientInput built from the four fields it
\* takes out of req.body
createInput(body) ==
    [name |-> body.name, address |-> body.address,
     conditions |-> body.conditions, allergies |-> body.allergies]

\* createPatient reading the clock a second time for updatedAt
newPatientTwoReads(patientId, input, now) ==
    [patientId |-> patientId, name |-> input.name, address |-> input.address,
     conditions |-> input.conditions, allergies |-> input.allergies,
     createdAt |-> now, updatedAt |-> now + 1]

\* createPatient: the record built from the input
newPatient(patientId, input, now) ==
    [patientId |-> patientId, name |-> input.name, address |-> input.address,
     conditions |-> input.conditions, allergies |-> input.allergies,
     createdAt |-> now, updatedAt |-> now]

\* updatePatient: the attributes of the SET expression, one per field of the
\* input that is not undefined, and always updatedAt
updateExpressions(input, now) ==
    [k \in (DOMAIN input \cap FieldNames) \cup {"updatedAt"} |->
        IF k = "updatedAt" THEN now ELSE input[k]]

\* the length test written against 0, forgetting the updatedAt entry
noFieldsToUpdateZero(sets) == Cardinality(DOMAIN sets) = 0

\* updatePatient: updateExpressions.length === 1
noFieldsToUpdate(sets) == Cardinality(DOMAIN sets) = 1

\* a send whose failure is swallowed, so the function carries on
sendNeverThrows(res) == FALSE

\* await docClient.send(command): a failed call throws, and the rest of the
\* service function is skipped
sendThrows(res) == ~res.ok

\* the index call awaited without catch and without indexPatient's try
mirrorAfterWriteStrict(idx, patient, cfg, ok) ==
    LET r == indexPatient(idx, patient, cfg, ok)
    IN [index |-> r.index, calls |-> r.calls, threw |-> (r.calls > 0 /\ ~ok)]

\* await indexPatient(patient).catch(log): whatever indexPatient throws is
\* logged and dropped
mirrorAfterWrite(idx, patient, cfg, ok) ==
    LET r == indexPatient(idx, patient, cfg, ok)
    IN [index |-> r.index, calls |-> r.calls, threw |-> FALSE]

\* the index removal awaited without catch and without deletePatientIndex's
\* try: a not_found answer and any other failure reach the handler
mirrorAfterDeleteStrict(idx, patientId, cfg, ok) ==
    LET r == deletePatientIndex(idx, patientId, cfg, ok)
    IN [index |-> r.index, calls |-> r.calls,
        threw |-> (r.calls > 0 /\ (~ok \/ r.notFound)),
        notFound |-> r.notFound]

\* await deletePatientIndex(patientId).catch(log)
mirrorAfterDelete(idx, patientId, cfg, ok) ==
    LET r == deletePatientIndex(idx, patientId, cfg, ok)
    IN [index |-> r.index, calls |-> r.calls, threw |-> FALSE,
        notFound |-> r.notFound]

\* findPatientsByCondition without its try/catch around the search
searchPropagates(r) == FALSE

\* findPatientsByCondition going on to the scan also when the search
\* succeeded without a hit
searchFallsThroughWhenEmpty(r) == r.threw \/ r.hits = {}

\* findPatientsByCondition: a throwing search falls through to the scan
searchFallsThrough(r) == r.threw

\* listPatients sending no ExclusiveStartKey
listPatientsFromStart(tbl, limit, lastEvaluatedKey) ==
    LET r == ScanPage(tbl, limit, Empty)
    IN IF r.lastKey = Empty THEN [patients |-> r.items]
       ELSE [patients |-> r.items, lastKey |-> r.lastKey]

\* listPatients: one ScanCommand; the result object has lastKey only when
\* the response has a LastEvaluatedKey
listPatients(tbl, limit, lastEvaluatedKey) ==
    LET r == ScanPage(tbl, limit, lastEvaluatedKey)
    IN IF r.lastKey = Empty THEN [patients |-> r.items]
       ELSE [patients |-> r.items, lastKey |-> r.lastKey]

\* listPatientsHandler: parseInt(req.query.limit) || 50
listLimit(query) ==
    LET n == ParseInt(IF "limit" \in DOMAIN query THEN query.limit
                      ELSE <<>>)
    IN IF n.nan \/ n.value = 0 THEN DefaultLimit ELSE n.value

\* listPatientsHandler: the response to GET /api/patients with this query,
\* avail telling whether the ScanCommand is answered
listPatientsResponse(query, tbl, avail) ==
    LET given == "lastKey" \in DOMAIN query /\ query.lastKey # <<>>
        parsed == IF given THEN JSONParse(query.lastKey)
                  ELSE [ok |-> TRUE, value |-> Empty]
    IN IF ~parsed.ok
       THEN Failure(500, <<"Unexpected", "token">>)
       ELSE IF ~avail
       THEN Failure(500, MsgUnavailable)
       ELSE Success(200, listPatients(tbl, listLimit(query), parsed.value))

(* ------------------------- handlers' error mapping ---------------------- *)

createErrorStatus(errorMessage) == 500

\* updatePatientHandler's catch answering every error as a client error
updateErrorStatusClient(errorMessage) == 400

updateErrorStatus(errorMessage) ==
    IF \/ Includes(errorMessage, MsgNoFields)
       \/ Includes(errorMessage, <<"attribute_not_exists">>)
    THEN 400
    ELSE 500

\* deletePatientHandler's catch answering without res.status(...), which
\* leaves Express's default status
deleteErrorStatusDefault(errorMessage) == 200

deleteErrorStatus(errorMessage) == 500

(* ------------------------------- requests ------------------------------- *)

IdleReq ==
    [pc |-> "idle", op |-> "none", headers |-> Empty, input |-> Empty,
     sets |-> Empty, item |-> Empty, pre |-> Empty, post |-> Empty,
     dbCalls |-> 0, osCalls |-> 0, handlerRan |-> FALSE,
     dbAnswered |-> FALSE, dbOk |-> FALSE, osFailed |-> FALSE,
     osNotFound |-> FALSE, idxSeen |-> Empty, sent |-> <<>>]

\* the outcome of one docClient.send: the store answers (res), or the call
\* fails for a reason of its own
Outcome(avail, res) ==
    IF avail THEN res
    ELSE [ok |-> FALSE, table |-> table, attributes |-> Empty,
          error |-> MsgUnavailable]

EmptyTable == <<>>

(* -------------------------------- startup ------------------------------- *)

\* initializeServices without its try/catch: a throwing initializeIndex
\* rejects the promise, and the .catch of the start-up chain exits
initializeServicesStrict(threw) == ~threw

\* initializeServices: whatever initializeIndex throws is caught and warned
\* about, so the promise resolves and .then(() => app.listen(...)) runs
initializeServices(threw) == TRUE

\* the process at module load of index.ts: nothing has run yet
Starting == [pc |-> "start", init |-> "none"]

\* the servers that listen: initializeIndex returned (the index exists or
\* was created), threw, or was skipped for want of a search domain
Started ==
    { [pc |-> "listening", init |-> o] :
        o \in (IF getOpenSearchClient(configured)
               THEN {"ready", "failed"} ELSE {"skipped"}) }

\* how initializeIndex ended, and where the start-up chain goes from there
AfterInitialize(outcome) ==
    [pc |-> IF initializeServices(outcome = "failed")
            THEN "listen" ELSE "exited",
     init |-> outcome]

\* a client that enumerates the store with GET /api/patients: the token it
\* holds, the pages it got, and whether it got a page without token
PagerStart == [token |-> Empty, pages |-> <<>>, ended |-> FALSE]

SeedPatient(id) ==
    [patientId |-> id, name |-> "n1", address |-> "ad1",
     conditions |-> <<"c1">>, allergies |-> <<"al1">>,
     createdAt |-> 0, updatedAt |-> 0]

\* tables the service may find at start: empty, or holding one record
\* written before the first clock reading of the run
SeedTables == { EmptyTable, [k \in {1} |-> SeedPatient(k)] }

Init ==
    /\ configured \in BOOLEAN
    /\ table \in SeedTables
    /\ index \in (IF configured THEN {EmptyTable, table} ELSE {EmptyTable})
    /\ clock = 1
    /\ issued = DOMAIN table
    /\ reqs = [s \in Slots |-> IdleReq]
    /\ pager = PagerStart
    /\ server \in Started

\* req.params.patientId: any identifier a client can name, which excludes
\* the one a create still in flight has generated and not yet returned
PathIds ==
    IDs \ { reqs[t].item.patientId :
              t \in { u \in Slots : /\ reqs[u].op = "create"
                                    /\ reqs[u].pc \in {"put", "index"} } }

\* a request arrives and is routed (patientRoutes.ts)
Receive(s) ==
    /\ server.pc = "listening"
    /\ reqs[s].pc = "idle"
    /\ \A t \in Slots : t < s => reqs[t].pc # "idle"
    /\ \E op \in Ops :
       \E h \in (IF op \in ProtectedOps THEN HeaderSets ELSE {Empty}) :
          reqs' = [reqs EXCEPT ![s] =
                     [IdleReq EXCEPT !.pc = IF op \in ProtectedOps
                                            THEN "auth" ELSE "handler",
                                     !.op = op, !.headers = h]]
    /\ UNCHANGED <<table, index, configured, clock, issued, pager, server>>

\* authMiddleware runs for the protected routes
AuthMiddleware(s) ==
    /\ reqs[s].pc = "auth"
    /\ LET a == authMiddleware(reqs[s].headers)
       IN reqs' = [reqs EXCEPT ![s].pc = IF a.next THEN "handler" ELSE "done",
                               ![s].sent = reqs[s].sent \o a.sent]
    /\ UNCHANGED <<table, index, configured, clock, issued, pager, server>>

\* createPatientHandler up to the first await: validation, then
\* createPatient builds the record (clock read, uuidv4) and sends the put
CreatePatientHandler(s) ==
    /\ reqs[s].pc = "handler" /\ reqs[s].op = "create"
    /\ \E body \in CreateBodies :
          IF createInvalid(body)
          THEN /\ reqs' = [reqs EXCEPT
                             ![s].pc = "done", ![s].handlerRan = TRUE,
                             ![s].input = body,
                             ![s].sent = reqs[s].sent \o
                                 <<Failure(400, <<"Name,", "address,",
                                     "conditions,", "and", "allergies",
                                     "are", "required">>)>>]
               /\ UNCHANGED <<clock, issued>>
          ELSE \E now \in ClockReads : \E id \in UuidChoices :
               /\ reqs' = [reqs EXCEPT
                             ![s].pc = "put", ![s].handlerRan = TRUE,
                             ![s].input = body,
                             ![s].item = newPatient(id, createInput(body),
                                                   now)]
               /\ clock' = now
               /\ issued' = issued \cup {id}
    /\ UNCHANGED <<table, index, configured, pager, server>>

\* createPatient: the PutCommand completes
CreatePut(s) ==
    /\ reqs[s].pc = "put"
    /\ \E avail \in BOOLEAN :
          LET res == Outcome(avail, PutItem(table, reqs[s].item))
          IN /\ table' = res.table
             /\ IF sendThrows(res)
                THEN reqs' = [reqs EXCEPT
                                ![s].pc = "done",
                                ![s].dbCalls = reqs[s].dbCalls + 1,
                                ![s].dbAnswered = avail,
                                ![s].pre = Restrict(table, DOMAIN table \cap
                                              {reqs[s].item.patientId}),
                                ![s].post = Restrict(res.table,
                                              DOMAIN res.table \cap
                                              {reqs[s].item.patientId}),
                                ![s].sent = reqs[s].sent \o
                                    <<Failure(createErrorStatus(res.error),
                                              res.error)>>]
                ELSE reqs' = [reqs EXCEPT
                                ![s].pc = "index",
                                ![s].dbCalls = reqs[s].dbCalls + 1,
                                ![s].dbAnswered = avail,
                                ![s].pre = Restrict(table, DOMAIN table \cap
                                              {reqs[s].item.patientId}),
                                ![s].post = Restrict(res.table,
                                              DOMAIN res.table \cap
                                              {reqs[s].item.patientId}),
                                ![s].dbOk = res.ok]
    /\ UNCHANGED <<index, configured, clock, issued, pager, server>>

\* createPatient / updatePatient: the best-effort indexPatient completes and
\* the handler answers
IndexStep(s) ==
    /\ reqs[s].pc = "index"
    /\ \E ok \in BOOLEAN :
          LET m == mirrorAfterWrite(index, reqs[s].item, configured, ok)
              msg == <<"index", "failed">>
              status == IF reqs[s].op = "create" THEN 201 ELSE 200
              errStatus == IF reqs[s].op = "create"
                           THEN createErrorStatus(msg)
                           ELSE updateErrorStatus(msg)
          IN /\ index' = m.index
             /\ reqs' = [reqs EXCEPT
                           ![s].pc = "done",
                           ![s].osCalls = reqs[s].osCalls + m.calls,
                           ![s].osFailed = (m.calls > 0 /\ ~ok),
                           ![s].sent = reqs[s].sent \o
                               (IF m.threw
                                THEN <<Failure(errStatus, msg)>>
                                ELSE <<Success(status, reqs[s].item)>>)]
    /\ UNCHANGED <<table, configured, clock, issued, pager, server>>

\* getPatientHandler: getPatientById and the answer
GetPatientHandler(s) ==
    /\ reqs[s].pc = "handler" /\ reqs[s].op = "get"
    /\ \E id \in PathIds : \E avail \in BOOLEAN :
          LET patient == GetItem(table, id)
          IN /\ issued' = issued \cup {id}
             /\ reqs' = [reqs EXCEPT
                        ![s].pc = "done", ![s].handlerRan = TRUE,
                        ![s].input = [patientId |-> id],
                        ![s].dbCalls = reqs[s].dbCalls + 1,
                        ![s].dbAnswered = avail, ![s].dbOk = avail,
                        ![s].pre = Restrict(table, DOMAIN table \cap {id}),
                        ![s].post = Restrict(table, DOMAIN table \cap {id}),
                        ![s].sent = reqs[s].sent \o
                            (IF ~avail
                             THEN <<Failure(500, MsgUnavailable)>>
                             ELSE IF patient = Empty
                             THEN <<Failure(404, <<"Patient", "not",
                                                   "found">>)>>
                             ELSE <<Success(200, patient)>>)]
    /\ UNCHANGED <<table, index, configured, clock, pager, server>>

\* updatePatientHandler up to the first await: updatePatient builds the SET
\* expression (clock read), rejects an empty update, sends the UpdateCommand
UpdatePatientHandler(s) ==
    /\ reqs[s].pc = "handler" /\ reqs[s].op = "update"
    /\ \E id \in PathIds : \E body \in UpdateBodies : \E now \in ClockReads :
          LET input == [patientId |-> id] @@ body
              sets == updateExpressions(input, now)
          IN /\ clock' = now
             /\ issued' = issued \cup {id}
             /\ IF noFieldsToUpdate(sets)
                THEN reqs' = [reqs EXCEPT
                                ![s].pc = "done", ![s].handlerRan = TRUE,
                                ![s].input = input, ![s].sets = sets,
                                ![s].sent = reqs[s].sent \o
                                    <<Failure(updateErrorStatus(MsgNoFields),
                                              MsgNoFields)>>]
                ELSE reqs' = [reqs EXCEPT
                                ![s].pc = "update", ![s].handlerRan = TRUE,
                                ![s].input = input, ![s].sets = sets]
    /\ UNCHANGED <<table, index, configured, pager, server>>

\* updatePatient: the UpdateCommand completes
UpdateSend(s) ==
    /\ reqs[s].pc = "update"
    /\ \E avail \in BOOLEAN :
          LET id == reqs[s].input.patientId
              res == Outcome(avail, UpdateItem(table, id, reqs[s].sets))
          IN /\ table' = res.table
             /\ IF sendThrows(res)
                THEN reqs' = [reqs EXCEPT
                                ![s].pc = "done",
                                ![s].dbCalls = reqs[s].dbCalls + 1,
                                ![s].dbAnswered = avail,
                                ![s].pre = Restrict(table,
                                              DOMAIN table \cap {id}),
                                ![s].post = Restrict(res.table,
                                              DOMAIN res.table \cap {id}),
                                ![s].sent = reqs[s].sent \o
                                    <<Failure(updateErrorStatus(res.error),
                                              res.error)>>]
                ELSE reqs' = [reqs EXCEPT
                                ![s].pc = "index",
                                ![s].dbCalls = reqs[s].dbCalls + 1,
                                ![s].dbAnswered = avail,
                                ![s].pre = Restrict(table,
                                              DOMAIN table \cap {id}),
                                ![s].post = Restrict(res.table,
                                              DOMAIN res.table \cap {id}),
                                ![s].dbOk = res.ok,
                                ![s].item = res.attributes]
    /\ UNCHANGED <<index, configured, clock, issued, pager, server>>

\* deletePatientHandler: deletePatient sends the DeleteCommand
DeletePatientHandler(s) ==
    /\ reqs[s].pc = "handler" /\ reqs[s].op = "delete"
    /\ \E id \in PathIds : \E avail \in BOOLEAN :
          LET res == Outcome(avail, DeleteItem(table, id))
          IN /\ table' = res.table
             /\ issued' = issued \cup {id}
             /\ IF sendThrows(res)
                THEN reqs' = [reqs EXCEPT
                                ![s].pc = "done", ![s].handlerRan = TRUE,
                                ![s].input = [patientId |-> id],
                                ![s].dbCalls = reqs[s].dbCalls + 1,
                                ![s].dbAnswered = avail,
                                ![s].pre = Restrict(table,
                                              DOMAIN table \cap {id}),
                                ![s].post = Restrict(res.table,
                                              DOMAIN res.table \cap {id}),
                                ![s].sent = reqs[s].sent \o
                                    <<Failure(deleteErrorStatus(res.error),
                                              res.error)>>]
                ELSE reqs' = [reqs EXCEPT
                                ![s].pc = "unindex", ![s].handlerRan = TRUE,
                                ![s].input = [patientId |-> id],
                                ![s].dbCalls = reqs[s].dbCalls + 1,
                                ![s].dbAnswered = avail,
                                ![s].pre = Restrict(table,
                                              DOMAIN table \cap {id}),
                                ![s].post = Restrict(res.table,
                                              DOMAIN res.table \cap {id}),
                                ![s].dbOk = res.ok]
    /\ UNCHANGED <<index, configured, clock, pager, server>>

\* deletePatient: the best-effort deletePatientIndex completes and the
\* handler answers
DeleteIndexStep(s) ==
    /\ reqs[s].pc = "unindex"
    /\ \E ok \in BOOLEAN :
          LET id == reqs[s].input.patientId
              m == mirrorAfterDelete(index, id, configured, ok)
              msg == <<"index", "failed">>
          IN /\ index' = m.index
             /\ reqs' = [reqs EXCEPT
                           ![s].pc = "done",
                           ![s].osCalls = reqs[s].osCalls + m.calls,
                           ![s].osFailed = (m.calls > 0 /\ ~ok),
                           ![s].osNotFound = m.notFound,
                           ![s].sent = reqs[s].sent \o
                               (IF m.threw
                                THEN <<Failure(deleteErrorStatus(msg), msg)>>
                                ELSE <<Success(200, [patientId |-> id])>>)]
    /\ UNCHANGED <<table, configured, clock, issued, pager, server>>

\* findPatientsByConditionHandler: the parameter check, then
\* findPatientsByCondition chooses the search service or the scan
FindByConditionHandler(s) ==
    /\ reqs[s].pc = "handler" /\ reqs[s].op = "condition"
    /\ \E q \in ConditionQueries :
          reqs' = [reqs EXCEPT
                     ![s].handlerRan = TRUE,
                     ![s].input = [condition |-> q],
                     ![s].pc = IF q = "" THEN "done"
                               ELSE IF getOpenSearchClient(configured)
                               THEN "search" ELSE "scan",
                     ![s].sent = reqs[s].sent \o
                         (IF q = ""
                          THEN <<Failure(400, <<"Condition", "query",
                                    "parameter", "is", "required">>)>>
                          ELSE <<>>)]
    /\ UNCHANGED <<table, index, configured, clock, issued, pager, server>>

\* findPatientsByCondition: the search-service query settles (ok: with its
\* hits; otherwise with an error, the client's request timeout included)
SearchStep(s) ==
    /\ reqs[s].pc = "search"
    /\ \E ok \in BOOLEAN :
          LET r == searchPatientsByCondition(index, reqs[s].input.condition,
                                             configured, ok)
          IN IF searchFallsThrough(r)
             THEN reqs' = [reqs EXCEPT
                             ![s].pc = "scan",
                             ![s].osCalls = reqs[s].osCalls + r.calls,
                             ![s].osFailed = r.threw,
                             ![s].idxSeen = index]
             ELSE reqs' = [reqs EXCEPT
                             ![s].pc = "done",
                             ![s].osCalls = reqs[s].osCalls + r.calls,
                             ![s].osFailed = r.threw,
                             ![s].idxSeen = index,
                             ![s].sent = reqs[s].sent \o
                                 (IF r.threw
                                  THEN <<Failure(500, <<"search",
                                                        "failed">>)>>
                                  ELSE <<Success(200, r.hits)>>)]
    /\ UNCHANGED <<table, index, configured, clock, issued, pager, server>>

\* findPatientsByCondition: the fallback ScanCommand completes
ScanStep(s) ==
    /\ reqs[s].pc = "scan"
    /\ \E avail \in BOOLEAN :
          reqs' = [reqs EXCEPT
                     ![s].pc = "done",
                     ![s].dbCalls = reqs[s].dbCalls + 1,
                     ![s].dbAnswered = avail, ![s].dbOk = avail,
                     ![s].pre = table, ![s].post = table,
                     ![s].sent = reqs[s].sent \o
                         (IF avail
                          THEN <<Success(200,
                                   ScanByCondition(table,
                                       reqs[s].input.condition))>>
                          ELSE <<Failure(500, MsgUnavailable)>>)]
    /\ UNCHANGED <<table, index, configured, clock, issued, pager, server>>

\* listPatientsHandler: the query is parsed, listPatients sends its
\* ScanCommand, and the answer
ListPatientsHandler(s) ==
    /\ reqs[s].pc = "handler" /\ reqs[s].op = "list"
    /\ \E query \in ListQueries : \E avail \in BOOLEAN :
          LET called == "lastKey" \notin DOMAIN query
                            \/ JSONParse(query.lastKey).ok
          IN reqs' = [reqs EXCEPT
                        ![s].pc = "done", ![s].handlerRan = TRUE,
                        ![s].input = query,
                        ![s].dbCalls = IF called THEN 1 ELSE 0,
                        ![s].dbAnswered = called /\ avail,
                        ![s].dbOk = called /\ avail,
                        ![s].pre = table, ![s].post = table,
                        ![s].sent = reqs[s].sent \o
                            <<listPatientsResponse(query, table, avail)>>]
    /\ UNCHANGED <<table, index, configured, clock, issued, pager, server>>

\* findPatientsByAddressHandler: the parameter check, findPatientsByAddress
\* sends its QueryCommand, and the answer
FindByAddressHandler(s) ==
    /\ reqs[s].pc = "handler" /\ reqs[s].op = "address"
    /\ \E q \in AddressQueries : \E avail \in BOOLEAN :
          reqs' = [reqs EXCEPT
                     ![s].pc = "done", ![s].handlerRan = TRUE,
                     ![s].input = [address |-> q],
                     ![s].dbCalls = IF q = "" THEN 0 ELSE 1,
                     ![s].dbAnswered = (q # "" /\ avail),
                     ![s].dbOk = (q # "" /\ avail),
                     ![s].pre = table, ![s].post = table,
                     ![s].sent = reqs[s].sent \o
                         (IF q = ""
                          THEN <<Failure(400, <<"Address", "query",
                                    "parameter", "is", "required">>)>>
                          ELSE IF avail
                          THEN <<Success(200, QueryByAddress(table, q))>>
                          ELSE <<Failure(500, MsgUnavailable)>>)]
    /\ UNCHANGED <<table, index, configured, clock, issued, pager, server>>

\* the response has gone out; the request is over and its record is dropped
Reply(s) ==
    /\ reqs[s].pc = "done"
    /\ reqs' = [reqs EXCEPT ![s] = [IdleReq EXCEPT !.pc = "closed"]]
    /\ UNCHANGED <<table, index, configured, clock, issued, pager, server>>

Next ==
    \E s \in Slots :
        \/ Receive(s)
        \/ AuthMiddleware(s)
        \/ CreatePatientHandler(s)
        \/ CreatePut(s)
        \/ IndexStep(s)
        \/ GetPatientHandler(s)
        \/ UpdatePatientHandler(s)
        \/ UpdateSend(s)
        \/ DeletePatientHandler(s)
        \/ DeleteIndexStep(s)
        \/ FindByConditionHandler(s)
        \/ SearchStep(s)
        \/ ScanStep(s)
        \/ ListPatientsHandler(s)
        \/ FindByAddressHandler(s)
        \/ Reply(s)

Spec == Init /\ [][Next]_vars

\* The service with its scheduling stated: Express runs the handler of a
\* routed condition search, the search client settles every query (with the
\* hits, an error, or its request timeout, which is an error too) and the
\* primary store settles every scan
SpecLive ==
    /\ Init
    /\ [][Next]_vars
    /\ \A s \in Slots :
          /\ WF_vars(FindByConditionHandler(s))
          /\ WF_vars(SearchStep(s))
          /\ WF_vars(ScanStep(s))

\* The same service with an identifier generator that may repeat: uuidv4()
\* can return the patientId of the record that is already in the store
InitCollision ==
    /\ configured \in BOOLEAN
    /\ table = [k \in {1} |-> SeedPatient(k)]
    /\ index \in (IF configured THEN {EmptyTable, table} ELSE {EmptyTable})
    /\ clock = 1
    /\ issued = {}
    /\ reqs = [s \in Slots |-> IdleReq]
    /\ pager = PagerStart
    /\ server \in Started

SpecCollision == InitCollision /\ [][Next]_vars

\* One client enumerating a store nobody writes to: it starts without a
\* token and passes each lastKey it gets back as the next call's lastKey
ListIDs == {1, 2, 3}

InitList ==
    /\ configured = FALSE
    /\ table \in { [k \in S |-> SeedPatient(k)] : S \in SUBSET ListIDs }
    /\ index = EmptyTable
    /\ clock = 1
    /\ issued = DOMAIN table
    /\ reqs = [s \in Slots |-> IdleReq]
    /\ pager = PagerStart
    /\ server \in Started

\* the next GET /api/patients of the enumeration and its response
ListNextPage ==
    /\ ~pager.ended
    /\ \E lim \in LimitParams :
          LET query == IF pager.token = Empty THEN [limit |-> lim]
                       ELSE [limit |-> lim,
                             lastKey |-> Stringify(pager.token)]
              resp == listPatientsResponse(query, table, TRUE)
              more == "lastKey" \in DOMAIN resp.data
          IN pager' = [token |-> IF more THEN resp.data.lastKey ELSE Empty,
                       pages |-> Append(pager.pages,
                                    [limit |-> listLimit(query),
                                     data |-> resp.data]),
                       ended |-> ~more]
    /\ UNCHANGED <<table, index, configured, clock, issued, reqs, server>>

NextList == ListNextPage

SpecList == InitList /\ [][NextList]_vars

\* The process from module load: initializeServices() runs initializeIndex,
\* and the server listens after it; requests are served from then on
InitStartup ==
    /\ configured \in BOOLEAN
    /\ table \in SeedTables
    /\ index \in (IF configured THEN {EmptyTable, table} ELSE {EmptyTable})
    /\ clock = 1
    /\ issued = DOMAIN table
    /\ reqs = [s \in Slots |-> IdleReq]
    /\ pager = PagerStart
    /\ server = Starting

\* initializeServices() is called; initializeIndex returns at once when no
\* search domain is configured, and asks whether the index exists otherwise
Startup ==
    /\ server.pc = "start"
    /\ server' = IF getOpenSearchClient(configured)
                 THEN [pc |-> "exists", init |-> "none"]
                 ELSE AfterInitialize("skipped")
    /\ UNCHANGED <<table, index, configured, clock, issued, reqs, pager>>

\* initializeIndex: client.indices.exists settles (true, false, or an
\* error, which initializeIndex rethrows)
IndicesExists ==
    /\ server.pc = "exists"
    /\ \E answer \in {"true", "false", "error"} :
          server' = CASE answer = "true" -> AfterInitialize("ready")
                      [] answer = "false" -> [pc |-> "create", init |-> "none"]
                      [] answer = "error" -> AfterInitialize("failed")
    /\ UNCHANGED <<table, index, configured, clock, issued, reqs, pager>>

\* initializeIndex: client.indices.create settles (created; refused with
\* resource_already_exists, which is logged and dropped; or another error,
\* which is rethrown)
IndicesCreate ==
    /\ server.pc = "create"
    /\ \E answer \in {"created", "resource_already_exists", "error"} :
          server' = IF answer = "error" THEN AfterInitialize("failed")
                    ELSE AfterInitialize("ready")
    /\ UNCHANGED <<table, index, configured, clock, issued, reqs, pager>>

\* .then(() => app.listen(PORT, ...))
Listen ==
    /\ server.pc = "listen"
    /\ server' = [server EXCEPT !.pc = "listening"]
    /\ UNCHANGED <<table, index, configured, clock, issued, reqs, pager>>

NextStartup ==
    \/ Startup
    \/ IndicesExists
    \/ IndicesCreate
    \/ Listen
    \/ Next

\* Scheduling: the start-up chain runs, the search client settles every
\* request it sends (with an answer, an error, or its request timeout), and
\* so does the primary store for a scan
SpecStartup ==
    /\ InitStartup
    /\ [][NextStartup]_vars
    /\ WF_vars(Startup)
    /\ WF_vars(IndicesExists)
    /\ WF_vars(IndicesCreate)
    /\ WF_vars(Listen)
    /\ \A s \in Slots :
          /\ WF_vars(FindByConditionHandler(s))
          /\ WF_vars(SearchStep(s))
          /\ WF_vars(ScanStep(s))

\* The service with its clients sending one request at a time, each after
\* the answer to the one before, on a store and an index that agree
InitSequential ==
    /\ Init
    /\ configured
    /\ index = table

\* a request arrives while no other is being processed
ReceiveAlone(s) ==
    /\ \A t \in Slots : reqs[t].pc \in {"idle", "done", "closed"}
    /\ Receive(s)

NextSequential ==
    \E s \in Slots :
        \/ ReceiveAlone(s)
        \/ AuthMiddleware(s)
        \/ CreatePatientHandler(s)
        \/ CreatePut(s)
        \/ IndexStep(s)
        \/ GetPatientHandler(s)
        \/ UpdatePatientHandler(s)
        \/ UpdateSend(s)
        \/ DeletePatientHandler(s)
        \/ DeleteIndexStep(s)
        \/ FindByConditionHandler(s)
        \/ SearchStep(s)
        \/ ScanStep(s)
        \/ ListPatientsHandler(s)
        \/ FindByAddressHandler(s)
        \/ Reply(s)

SpecSequential == InitSequential /\ [][NextSequential]_vars

(* ------------------------------ properties ------------------------------ *)

WriteOps == {"create", "update", "delete"}

Done(s) == reqs[s].pc = "done"

\* the patientId a request is about
Target(s) ==
    IF reqs[s].op = "create" THEN reqs[s].item.patientId
    ELSE reqs[s].input.patientId

\* the target was not in the primary store when the primary call ran
Absent(s) == DOMAIN reqs[s].pre = {}

Supplied(s) == DOMAIN reqs[s].input \cap FieldNames

\* the request carries a Bearer token the identity provider accepts
TokenAccepted(headers) ==
    /\ "authorization" \in DOMAIN headers
    /\ StartsWith(headers.authorization, BearerPrefix)
    /\ Substring(headers.authorization, 7) \in ValidTokens

\* C1: a create, update or delete whose primary write succeeded answers
\* with success (201 for create, 200 otherwise) and with the record as the
\* primary store holds it after the write (delete: the patientId), whether
\* the index call succeeded, failed or was never made.
C1_WriteSuccessIgnoresIndex ==
    \A s \in Slots :
        (Done(s) /\ reqs[s].op \in WriteOps /\ reqs[s].dbOk) =>
            /\ Len(reqs[s].sent) = 1
            /\ reqs[s].sent[1].success
            /\ reqs[s].sent[1].status =
                   (IF reqs[s].op = "create" THEN 201 ELSE 200)
            /\ reqs[s].sent[1].data =
                   (IF reqs[s].op = "delete"
                    THEN [patientId |-> Target(s)]
                    ELSE reqs[s].post[Target(s)])
            /\ (reqs[s].op = "delete" => DOMAIN reqs[s].post = {})

C1_Witness ==
    \E s \in Slots :
        /\ Done(s) /\ reqs[s].op = "update" /\ reqs[s].dbOk
        /\ reqs[s].osFailed /\ reqs[s].osCalls = 1

\* C2: when the search service is not configured or its query failed, the
\* answer of findByCondition(q) is exactly the set of records of the primary
\* store (as it is when the scan runs) whose conditions contain q.
C2_FallbackScanComplete ==
    \A s \in Slots :
        (Done(s) /\ reqs[s].op = "condition" /\ reqs[s].dbCalls = 1
            /\ reqs[s].dbOk) =>
            reqs[s].sent[1].data =
                { reqs[s].pre[k] :
                    k \in { j \in DOMAIN reqs[s].pre :
                              Contains(reqs[s].pre[j].conditions,
                                       reqs[s].input.condition) } }

\* C3: in findByCondition a failed search query always leads to the scan
\* and is never answered with an error; a 500 is answered only when the scan
\* itself failed; without a configured search service it is never called.
C3_SearchFailureFallsBack ==
    \A s \in Slots :
        reqs[s].op = "condition" =>
            /\ (~configured => reqs[s].osCalls = 0)
            /\ (reqs[s].osFailed =>
                    \/ reqs[s].pc = "scan"
                    \/ (Done(s) /\ reqs[s].dbCalls = 1))
            /\ (Done(s) /\ reqs[s].sent[1].status = 500 =>
                    reqs[s].dbCalls = 1 /\ ~reqs[s].dbOk)
            /\ (Done(s) /\ reqs[s].dbCalls = 1 /\ reqs[s].dbOk =>
                    reqs[s].sent[1].success)

C3_Witness ==
    \E s \in Slots :
        /\ Done(s) /\ reqs[s].op = "condition" /\ reqs[s].osFailed
        /\ reqs[s].osCalls = 1 /\ reqs[s].dbOk /\ reqs[s].sent[1].success

\* C4: an update with at least one field and a delete of a patientId that is
\* not in the primary store fail (with the store's precondition failure
\* whenever the store answers), leave the store without that record and make
\* no index call; getById of such an id answers not found.
C4_MissingIdFails ==
    \A s \in Slots :
        (Done(s) /\ reqs[s].handlerRan /\ reqs[s].dbCalls = 1
            /\ Absent(s)) =>
            CASE reqs[s].op \in {"update", "delete"} ->
                    /\ ~reqs[s].dbOk
                    /\ ~reqs[s].sent[1].success
                    /\ DOMAIN reqs[s].post = {}
                    /\ reqs[s].osCalls = 0
                    /\ (reqs[s].dbAnswered =>
                            reqs[s].sent[1].error = MsgConditional)
              [] reqs[s].op = "get" ->
                    reqs[s].dbAnswered =>
                        /\ ~reqs[s].sent[1].success
                        /\ reqs[s].sent[1].status = 404
              [] OTHER -> TRUE

C4_Witness ==
    \E s \in Slots :
        /\ Done(s) /\ reqs[s].op = "update" /\ reqs[s].dbCalls = 1
        /\ Absent(s) /\ reqs[s].dbAnswered /\ Supplied(s) # {}

\* C5: a request for a patientId that is not in the primary store is answered
\* 404 for GET and DELETE, and 404 or 400 for PUT with at least one field.
C5_MissingIdIs404 ==
    \A s \in Slots :
        (Done(s) /\ reqs[s].handlerRan /\ reqs[s].dbCalls = 1
            /\ reqs[s].dbAnswered /\ Absent(s)
            /\ reqs[s].op \in {"get", "update", "delete"}) =>
            reqs[s].sent[1].status \in
                (IF reqs[s].op = "update" THEN {400, 404} ELSE {404})

\* C6: an update with none of the four fields is answered 400 with the
\* message "No fields to update", whether or not the record exists, and calls
\* neither the primary store nor the index.
C6_EmptyUpdateRejected ==
    \A s \in Slots :
        (reqs[s].op = "update" /\ reqs[s].handlerRan /\ Supplied(s) = {}) =>
            /\ Done(s)
            /\ Len(reqs[s].sent) = 1
            /\ reqs[s].sent[1].status = 400
            /\ ~reqs[s].sent[1].success
            /\ reqs[s].sent[1].error = MsgNoFields
            /\ reqs[s].dbCalls = 0
            /\ reqs[s].osCalls = 0

C6_Witness ==
    \E s \in Slots :
        /\ Done(s) /\ reqs[s].op = "update" /\ reqs[s].handlerRan
        /\ Supplied(s) = {} /\ reqs[s].input.patientId \in DOMAIN table

\* C7: a successful update leaves the stored record with the same attributes
\* as before, the supplied ones set to the request's values, updatedAt set to
\* the request's clock reading, and every other one (patientId, createdAt,
\* the fields not supplied) unchanged.
C7_UpdateFrame ==
    \A s \in Slots :
        (reqs[s].op = "update" /\ reqs[s].dbOk) =>
            LET old == reqs[s].pre[Target(s)]
                new == reqs[s].post[Target(s)]
            IN /\ DOMAIN new = DOMAIN old
               /\ \A k \in DOMAIN old :
                     IF k \in Supplied(s) THEN new[k] = reqs[s].input[k]
                     ELSE IF k = "updatedAt"
                     THEN new[k] = reqs[s].sets.updatedAt
                     ELSE new[k] = old[k]

C7_Witness ==
    \E s \in Slots :
        /\ Done(s) /\ reqs[s].op = "update" /\ reqs[s].dbOk
        /\ Supplied(s) = {"conditions"}
        /\ reqs[s].post[Target(s)].name = "n1"
        /\ reqs[s].post[Target(s)].conditions = <<"c2">>

\* C8: every successful update leaves the stored updatedAt strictly greater
\* than it was immediately before that write.
C8_UpdatedAtStrictlyIncreases ==
    \A s \in Slots :
        (reqs[s].op = "update" /\ reqs[s].dbOk) =>
            reqs[s].post[Target(s)].updatedAt >
                reqs[s].pre[Target(s)].updatedAt

\* C9: on POST, PUT and DELETE the handler runs only for a request whose
\* Bearer token the identity provider accepted; any other request is answered
\* 401 once, with no primary-store or index call; no request gets both a 401
\* and a handler run.
C9_AuthBeforeHandler ==
    \A s \in Slots :
        reqs[s].op \in ProtectedOps =>
            /\ (reqs[s].handlerRan => TokenAccepted(reqs[s].headers))
            /\ (reqs[s].dbCalls > 0 \/ reqs[s].osCalls > 0 =>
                    TokenAccepted(reqs[s].headers))
            /\ ~(reqs[s].handlerRan /\
                   \E i \in 1..Len(reqs[s].sent) :
                       reqs[s].sent[i].status = 401)
            /\ (~TokenAccepted(reqs[s].headers) /\ reqs[s].pc # "auth" =>
                    /\ Done(s)
                    /\ Len(reqs[s].sent) = 1
                    /\ reqs[s].sent[1].status = 401
                    /\ ~reqs[s].sent[1].success)

C9_Witness ==
    \E s \in Slots :
        /\ Done(s) /\ reqs[s].op = "delete"
        /\ reqs[s].headers = [authorization |-> BearerPrefix \o <<"b">>]
        /\ reqs[s].sent[1].status = 401
        /\ ~reqs[s].handlerRan /\ reqs[s].dbCalls = 0

\* C10: in a create, update or delete the index is called only after the
\* primary write of that request succeeded, with the record that write
\* stored; when the primary call failed the request ends without an index
\* call.
C10_IndexAfterPrimary ==
    \A s \in Slots :
        reqs[s].op \in WriteOps =>
            /\ (reqs[s].osCalls > 0 => reqs[s].dbOk)
            /\ (reqs[s].pc \in {"index", "unindex"} =>
                    reqs[s].dbOk /\ reqs[s].dbCalls = 1)
            /\ (reqs[s].pc = "index" =>
                    reqs[s].item = reqs[s].post[Target(s)])
            /\ (reqs[s].dbCalls = 1 /\ ~reqs[s].dbOk =>
                    Done(s) /\ reqs[s].osCalls = 0)

C10_Witness ==
    \E s \in Slots :
        /\ Done(s) /\ reqs[s].op = "create" /\ reqs[s].dbOk
        /\ reqs[s].osCalls = 1 /\ ~reqs[s].osFailed
        /\ Target(s) \in DOMAIN index

\* a record with the attributes of a SET expression written over it
Written(old, sets) ==
    [k \in DOMAIN old \cup DOMAIN sets |->
        IF k \in DOMAIN sets THEN sets[k] ELSE old[k]]

\* two updates of the same patientId, both written to the primary store, t's
\* write finding the record as s's write left it (t wrote last)
WroteLast(s, t) ==
    /\ s # t
    /\ reqs[s].op = "update" /\ reqs[t].op = "update"
    /\ reqs[s].dbOk /\ reqs[t].dbOk
    /\ reqs[s].input.patientId = reqs[t].input.patientId
    /\ reqs[t].pre = reqs[s].post

\* C11: of two updates of one patientId the primary store holds the result of
\* the one whose primary write came last (both SETs applied in write order),
\* while the index, once both requests are over and both index calls
\* succeeded, holds the record either of them stored: the last one's or the
\* older one's, since nothing orders the index calls.
C11_PrimaryHoldsLastWrite ==
    \A s, t \in Slots :
        WroteLast(s, t) =>
            LET id == reqs[t].input.patientId
            IN /\ table[id] =
                      Written(Written(reqs[s].pre[id], reqs[s].sets),
                              reqs[t].sets)
               /\ (Done(s) /\ Done(t)
                     /\ reqs[s].osCalls = 1 /\ ~reqs[s].osFailed
                     /\ reqs[t].osCalls = 1 /\ ~reqs[t].osFailed =>
                       /\ id \in DOMAIN index
                       /\ index[id] \in {reqs[s].post[id], reqs[t].post[id]})

\* both updates are over, every index call succeeded, and the index holds
\* the older record while the primary store holds the last write
C11_Witness ==
    \E s, t \in Slots :
        /\ WroteLast(s, t)
        /\ Done(s) /\ Done(t)
        /\ reqs[s].osCalls = 1 /\ ~reqs[s].osFailed
        /\ reqs[t].osCalls = 1 /\ ~reqs[t].osFailed
        /\ table[Target(t)] = reqs[t].post[Target(t)]
        /\ index[Target(t)] = reqs[s].post[Target(s)]
        /\ index[Target(t)] # table[Target(t)]
        /\ reqs[s].sent[1].success /\ reqs[t].sent[1].success

\* C12: a delete of a patientId that is in the primary store when the
\* DeleteCommand runs (the store answering) removes the record and is answered
\* 200 with that patientId, whether the index then removes a document,
\* answers not_found because it holds none, fails otherwise, or is not
\* configured.
C12_DeleteIgnoresIndexOutcome ==
    \A s \in Slots :
        (reqs[s].op = "delete" /\ reqs[s].dbCalls = 1
            /\ reqs[s].dbAnswered /\ ~Absent(s)) =>
            /\ reqs[s].dbOk
            /\ DOMAIN reqs[s].post = {}
            /\ reqs[s].pc \in {"unindex", "done"}
            /\ (Done(s) =>
                   /\ Len(reqs[s].sent) = 1
                   /\ reqs[s].sent[1].success
                   /\ reqs[s].sent[1].status = 200
                   /\ reqs[s].sent[1].data = [patientId |-> Target(s)])

\* the index answered not_found to the removal and the delete succeeded
C12_Witness ==
    \E s \in Slots :
        /\ Done(s) /\ reqs[s].op = "delete" /\ reqs[s].dbOk
        /\ ~Absent(s) /\ reqs[s].osCalls = 1 /\ reqs[s].osNotFound
        /\ reqs[s].sent[1].success
        /\ Target(s) \notin DOMAIN table

PatientFields ==
    FieldNames \cup {"patientId", "createdAt", "updatedAt"}

\* a create that passed validation (its record has been built)
Creating(s) == reqs[s].op = "create" /\ reqs[s].item # Empty

\* C13: the record a valid create builds, stores and returns has the seven
\* fields, a generated patientId that no other create of the run got and no
\* record of the store has, createdAt equal to updatedAt, and the four input
\* fields as supplied; a patientId or timestamps in the body are not used.
C13_CreateBuildsRecord ==
    \A s \in Slots :
        Creating(s) =>
            LET item == reqs[s].item
                body == reqs[s].input
            IN /\ DOMAIN item = PatientFields
               /\ item.patientId \in IDs
               /\ \A t \in Slots \ {s} :
                     Creating(t) => reqs[t].item.patientId # item.patientId
               /\ (reqs[s].dbCalls = 1 => Absent(s))
               /\ item.createdAt = item.updatedAt
               /\ \A k \in FieldNames : item[k] = body[k]
               /\ ("patientId" \in DOMAIN body =>
                      /\ item.patientId # body.patientId
                      /\ item.createdAt # body.createdAt)
               /\ (reqs[s].dbOk => reqs[s].post[item.patientId] = item)
               /\ (Done(s) /\ reqs[s].dbOk =>
                      /\ reqs[s].sent[1].status = 201
                      /\ reqs[s].sent[1].data = item)

\* two creates got different identifiers, one of them with the forged body
C13_Witness ==
    \E s, t \in Slots :
        /\ s # t /\ Creating(s) /\ Creating(t)
        /\ Done(s) /\ reqs[s].dbOk /\ Done(t) /\ reqs[t].dbOk
        /\ reqs[s].input = ForgedBody
        /\ reqs[s].item.patientId # reqs[t].item.patientId
        /\ reqs[s].sent[1].data.patientId \in DOMAIN table

\* C14: a create whose generated patientId is in the primary store when the
\* PutCommand runs (the store answering) fails with the store's precondition
\* failure, leaves the stored record as it was, makes no index call and is
\* answered 500.
C14_CreateNeverOverwrites ==
    \A s \in Slots :
        (Creating(s) /\ reqs[s].dbCalls = 1 /\ reqs[s].dbAnswered
            /\ ~Absent(s)) =>
            /\ ~reqs[s].dbOk
            /\ reqs[s].post = reqs[s].pre
            /\ reqs[s].osCalls = 0
            /\ Done(s)
            /\ Len(reqs[s].sent) = 1
            /\ ~reqs[s].sent[1].success
            /\ reqs[s].sent[1].status = 500
            /\ reqs[s].sent[1].error = MsgConditional

\* the generator repeated the identifier of the stored record
C14_Witness ==
    \E s \in Slots :
        /\ Creating(s) /\ Done(s) /\ reqs[s].dbCalls = 1
        /\ reqs[s].dbAnswered /\ ~Absent(s)
        /\ reqs[s].item.patientId \in DOMAIN table
        /\ table[reqs[s].item.patientId] # reqs[s].item
        /\ reqs[s].sent[1].status = 500

\* C15: a getById that follows a successful create of that patientId (the
\* store answering, nothing else in between) is answered 200 with the record
\* the create returned and makes no index call, whether the index holds the
\* document, holds none (the create's index call failed) or is not
\* configured.
C15_GetReadsPrimaryOnly ==
    \A s, t \in Slots :
        (/\ Creating(s) /\ Done(s) /\ reqs[s].dbOk
         /\ reqs[t].op = "get" /\ Done(t) /\ reqs[t].dbAnswered
         /\ reqs[t].input.patientId = reqs[s].item.patientId) =>
            /\ Len(reqs[t].sent) = 1
            /\ reqs[t].sent[1].status = 200
            /\ reqs[t].sent[1].success
            /\ reqs[t].sent[1].data = reqs[s].sent[1].data
            /\ reqs[t].osCalls = 0

\* the create's index call failed, so the index has no document of the
\* record the get returns
C15_Witness ==
    \E s, t \in Slots :
        /\ Creating(s) /\ Done(s) /\ reqs[s].dbOk
        /\ reqs[s].osCalls = 1 /\ reqs[s].osFailed
        /\ reqs[t].op = "get" /\ Done(t) /\ reqs[t].dbAnswered
        /\ reqs[t].input.patientId = reqs[s].item.patientId
        /\ reqs[t].input.patientId \notin DOMAIN index
        /\ reqs[t].sent[1].data.name = reqs[s].input.name

\* the patientIds of the records of the enumeration's page i
PageIds(i) == { r.patientId : r \in pager.pages[i].data.patients }

\* page i came with a continuation token
HasToken(i) == "lastKey" \in DOMAIN pager.pages[i].data

\* the records of the store not returned by the pages up to page i
Remaining(i) ==
    DOMAIN table \ UNION { PageIds(j) : j \in 1..i }

\* what every page of an enumeration satisfies, apart from when it carries a
\* token: at most limit records, all of them records of the store, none of
\* them returned by an earlier page
PagesSound ==
    \A i \in 1..Len(pager.pages) :
        /\ Cardinality(pager.pages[i].data.patients)
               <= pager.pages[i].limit
        /\ \A r \in pager.pages[i].data.patients :
              r.patientId \in DOMAIN table /\ table[r.patientId] = r
        /\ Cardinality(PageIds(i)) =
               Cardinality(pager.pages[i].data.patients)
        /\ \A j \in 1..(i - 1) : PageIds(i) \cap PageIds(j) = {}

\* an enumeration that got a page without token has returned every record
EndsComplete ==
    pager.ended =>
        /\ Len(pager.pages) >= 1
        /\ ~HasToken(Len(pager.pages))
        /\ Remaining(Len(pager.pages)) = {}

MissingOrEmpty(body, k) ==
    \/ k \notin DOMAIN body
    \/ (k \in {"name", "address"} /\ body[k] = "")
    \/ (k \in {"conditions", "allergies"} /\ body[k] = <<>>)

\* C17: a create whose body has one of name, address, conditions, allergies
\* missing or empty is answered 400 by the handler without any primary-store
\* or index call, and no record is built from it.
C17_EmptyFieldRejected ==
    \A s \in Slots :
        (/\ reqs[s].op = "create" /\ reqs[s].handlerRan
         /\ \E k \in FieldNames : MissingOrEmpty(reqs[s].input, k)) =>
            /\ Done(s)
            /\ reqs[s].item = Empty
            /\ reqs[s].dbCalls = 0
            /\ reqs[s].osCalls = 0
            /\ Len(reqs[s].sent) = 1
            /\ reqs[s].sent[1].status = 400

\* C18: a condition search that has called the search service or the scan is
\* eventually answered, and with success unless the scan itself failed: a
\* search query that fails or times out leads to the scan, not to a caller
\* left waiting or to an error.
C18_SearchEventuallyAnswers ==
    \A s \in Slots :
        (reqs[s].pc \in {"search", "scan"}) ~>
            (/\ Done(s)
             /\ Len(reqs[s].sent) = 1
             /\ (reqs[s].sent[1].success
                    \/ (reqs[s].dbCalls = 1 /\ ~reqs[s].dbOk)))

\* a search query failed and the caller got the scan's answer
C18_Witness ==
    \E s \in Slots :
        /\ Done(s) /\ reqs[s].op = "condition"
        /\ reqs[s].osCalls = 1 /\ reqs[s].osFailed
        /\ reqs[s].dbCalls = 1 /\ reqs[s].dbOk
        /\ reqs[s].sent[1].status = 200
        /\ reqs[s].sent[1].data = {SeedPatient(1)}

\* the uniform envelope {success, data?, error?, timestamp} and its status
Envelope(r) ==
    /\ r.success \in BOOLEAN
    /\ (r.success <=> r.status \in {200, 201})
    /\ ("data" \in DOMAIN r <=> r.success)
    /\ ("error" \in DOMAIN r <=> ~r.success)
    /\ "timestamp" \in DOMAIN r

\* C19: a request to a patient endpoint (create, get, update, delete, list,
\* address search, condition search) is answered once, when its handling
\* ends and not before, and the answer is the uniform envelope: success is
\* true exactly for status 200 or 201, data is there exactly with success,
\* error exactly without, timestamp always.
C19_OneEnvelopePerRequest ==
    \A s \in Slots :
        /\ Len(reqs[s].sent) = (IF Done(s) THEN 1 ELSE 0)
        /\ \A i \in 1..Len(reqs[s].sent) : Envelope(reqs[s].sent[i])

\* a list request answered 500 for a lastKey that is no JSON, next to a
\* delete answered 500 by the handler's catch
C19_Witness ==
    \E s, t \in Slots :
        /\ Done(s) /\ reqs[s].op = "list" /\ reqs[s].dbCalls = 0
        /\ reqs[s].sent[1].status = 500 /\ ~reqs[s].sent[1].success
        /\ Done(t) /\ reqs[t].op = "delete" /\ reqs[t].handlerRan
        /\ reqs[t].sent[1].status = 500
        /\ "error" \in DOMAIN reqs[t].sent[1]

\* C20: a condition search whose search-service query succeeded is answered
\* 200 with exactly the documents of the index (as it was when the query
\* ran) that match the query, at most SearchSize of them, and makes no
\* primary-store call, also when no document matches.
C20_SearchResultReturnedAsIs ==
    \A s \in Slots :
        (reqs[s].op = "condition" /\ reqs[s].osCalls = 1
            /\ ~reqs[s].osFailed) =>
            /\ Done(s)
            /\ reqs[s].dbCalls = 0
            /\ Len(reqs[s].sent) = 1
            /\ reqs[s].sent[1].status = 200
            /\ reqs[s].sent[1].data =
                   { reqs[s].idxSeen[k] :
                       k \in { j \in DOMAIN reqs[s].idxSeen :
                                 Matches(reqs[s].idxSeen[j],
                                         reqs[s].input.condition) } }
            /\ Cardinality(reqs[s].sent[1].data) <= SearchSize

\* the query succeeded without a hit although the primary store holds a
\* record with that condition, and the empty result was returned
C20_Witness ==
    \E s \in Slots :
        /\ Done(s) /\ reqs[s].op = "condition"
        /\ reqs[s].osCalls = 1 /\ ~reqs[s].osFailed
        /\ reqs[s].sent[1].data = {}
        /\ reqs[s].dbCalls = 0
        /\ \E k \in DOMAIN table :
              Contains(table[k].conditions, reqs[s].input.condition)

\* C21: the record of a successful update (response.Attributes) has the seven
\* fields and is the record the primary store holds right after that
\* update's write; the handler answers with it, and an index call of that
\* update that succeeds leaves exactly that record as the index's document.
C21_UpdateReturnsStoredRecord ==
    [][\A s \in Slots :
          (reqs'[s].op = "update" /\ reqs'[s].dbOk) =>
              LET id == reqs'[s].input.patientId
                  stored == reqs'[s].post[id]
              IN /\ reqs'[s].item = stored
                 /\ DOMAIN reqs'[s].item = PatientFields
                 /\ (reqs[s].pc = "update" => table'[id] = stored)
                 /\ (reqs'[s].pc = "done" =>
                        /\ reqs'[s].sent[1].status = 200
                        /\ reqs'[s].sent[1].data = stored)
                 /\ ((reqs[s].pc = "index" /\ reqs'[s].pc = "done"
                        /\ reqs'[s].osCalls = 1 /\ ~reqs'[s].osFailed) =>
                        /\ id \in DOMAIN index'
                        /\ index'[id] = stored)]_vars

\* an update of the name alone answered with, and indexed as, the whole
\* record
C21_Witness ==
    \E s \in Slots :
        /\ Done(s) /\ reqs[s].op = "update" /\ reqs[s].dbOk
        /\ Supplied(s) = {"name"}
        /\ reqs[s].osCalls = 1 /\ ~reqs[s].osFailed
        /\ DOMAIN reqs[s].sent[1].data = PatientFields
        /\ reqs[s].sent[1].data.address = "ad1"
        /\ reqs[s].sent[1].data.name = "n2"
        /\ index[Target(s)] = reqs[s].sent[1].data
        /\ table[Target(s)] = reqs[s].sent[1].data

\* C22: a request whose primary-store call failed for a reason of the store's
\* own (unreachable or erroring, no precondition involved) is answered at
\* once, 500 with success false, on every endpoint that calls the store; a
\* create, update or delete in that case makes no index call.
C22_UnavailableIs500 ==
    \A s \in Slots :
        (reqs[s].dbCalls > 0 /\ ~reqs[s].dbAnswered) =>
            /\ Done(s)
            /\ reqs[s].dbCalls = 1
            /\ Len(reqs[s].sent) = 1
            /\ reqs[s].sent[1].status = 500
            /\ ~reqs[s].sent[1].success
            /\ reqs[s].sent[1].error = MsgUnavailable
            /\ (reqs[s].op \in WriteOps => reqs[s].osCalls = 0)

\* with the search service configured, an update of an existing record whose
\* UpdateCommand got no answer from the store
C22_Witness ==
    \E s \in Slots :
        /\ configured
        /\ Done(s) /\ reqs[s].op = "update"
        /\ reqs[s].dbCalls = 1 /\ ~reqs[s].dbAnswered
        /\ Target(s) \in DOMAIN table
        /\ reqs[s].osCalls = 0
        /\ reqs[s].sent[1].status = 500

\* C23: start-up never exits on the index initialisation: whether
\* initializeIndex returns, throws or is skipped, the server comes to
\* listen; and a condition search it then takes on is answered, with success
\* unless the scan itself failed (a failed search query leads to the scan).
C23_StartupNotFatal ==
    /\ [](server.pc # "exited")
    /\ <>(server.pc = "listening")
    /\ \A s \in Slots :
          (/\ server.pc = "listening"
           /\ reqs[s].op = "condition"
           /\ reqs[s].pc \in {"search", "scan"}) ~>
              (/\ Done(s)
               /\ Len(reqs[s].sent) = 1
               /\ (reqs[s].sent[1].success
                      \/ (reqs[s].dbCalls = 1 /\ ~reqs[s].dbOk)))

\* initializeIndex threw at start-up, the server listens, and a condition
\* search whose search query failed was answered from the scan
C23_Witness ==
    \E s \in Slots :
        /\ server = [pc |-> "listening", init |-> "failed"]
        /\ Done(s) /\ reqs[s].op = "condition"
        /\ reqs[s].osCalls = 1 /\ reqs[s].osFailed
        /\ reqs[s].dbCalls = 1 /\ reqs[s].dbOk
        /\ reqs[s].sent[1].status = 200

\* C24: of two updates of one patientId that are both written and set
\* disjoint fields, the primary store's record holds each one's value for each
\* field it set, whichever write came first and however the two requests
\* overlap.
C24_DisjointUpdatesBothKept ==
    \A s, t \in Slots :
        (/\ s # t
         /\ reqs[s].op = "update" /\ reqs[t].op = "update"
         /\ reqs[s].dbOk /\ reqs[t].dbOk
         /\ Target(s) = Target(t)
         /\ Supplied(s) \cap Supplied(t) = {}) =>
            /\ Target(s) \in DOMAIN table
            /\ DOMAIN table[Target(s)] = PatientFields
            /\ \A k \in Supplied(s) : table[Target(s)][k] = reqs[s].input[k]
            /\ \A k \in Supplied(t) : table[Target(t)][k] = reqs[t].input[k]

\* two overlapping updates are over, one of the name and one of the address:
\* s wrote first and indexed last (the index holds s's record), and the
\* primary store holds both new values
C24_Witness ==
    \E s, t \in Slots :
        /\ WroteLast(s, t)
        /\ Done(s) /\ Done(t)
        /\ Supplied(s) = {"name"} /\ Supplied(t) = {"address"}
        /\ reqs[s].osCalls = 1 /\ ~reqs[s].osFailed
        /\ reqs[t].osCalls = 1 /\ ~reqs[t].osFailed
        /\ index[Target(s)] = reqs[s].post[Target(s)]
        /\ table[Target(s)].name = "n2"
        /\ table[Target(s)].address = "ad2"

\* C25: with the search service configured, when no request is in flight any
\* more and every index call of the requests made so far succeeded (none
\* failed, none was answered not_found), the index holds no document for a
\* patientId that the primary store does not hold.
C25_NoDocumentOfDeletedPatient ==
    (/\ configured
     /\ \A s \in Slots :
           /\ reqs[s].pc \in {"idle", "done"}
           /\ ~reqs[s].osFailed
           /\ ~reqs[s].osNotFound) =>
        DOMAIN index \subseteq DOMAIN table

\* C26: with requests processed one at a time on a configured search
\* service, starting from a store and an index that agree, whenever no
\* request is being processed and no index call of the requests made so far
\* failed, the index holds exactly the records of the primary store: one
\* document per record, equal to it, and none besides.
C26_SequentialIndexMirrors ==
    (\A s \in Slots : reqs[s].pc \in {"idle", "done"} /\ ~reqs[s].osFailed)
        => index = table

\* a create and then an update of the record it created, both answered and
\* both indexed, and the index holds the updated record as the store does
C26_Witness ==
    /\ Done(1) /\ reqs[1].op = "create" /\ reqs[1].dbOk
    /\ Done(2) /\ reqs[2].op = "update" /\ reqs[2].dbOk
    /\ Target(2) = Target(1)
    /\ reqs[1].osCalls = 1 /\ ~reqs[1].osFailed
    /\ reqs[2].osCalls = 1 /\ ~reqs[2].osFailed
    /\ table[Target(2)].name = "n2"
    /\ index = table

\* an identifier that is known to a client or the service, is not in the
\* primary store and is not the one a create in flight is about to store:
\* that of a deleted record (or of a record that never was)
Gone(id) ==
    /\ id \in issued
    /\ id \notin DOMAIN table
    /\ id \in PathIds

\* C27: a patientId that leaves the primary store is gone, and one that is
\* gone stays gone at every step: no update, later or in flight, and no
\* create puts a record under it again; an update of it that the store
\* answers fails without writing, and a get of it that the store answers is
\* answered 404.
C27_DeletedStaysDeleted ==
    [][\A id \in IDs :
          /\ (id \in DOMAIN table /\ id \notin DOMAIN table') => Gone(id)'
          /\ Gone(id) =>
                /\ Gone(id)'
                /\ \A s \in Slots :
                      (/\ reqs[s].pc \in {"handler", "update"}
                       /\ reqs'[s].pc = "done"
                       /\ reqs'[s].op \in {"get", "update"}
                       /\ reqs'[s].dbCalls = 1 /\ reqs'[s].dbAnswered
                       /\ reqs'[s].input.patientId = id) =>
                          /\ ~reqs'[s].sent[1].success
                          /\ (reqs'[s].op = "get" =>
                                 reqs'[s].sent[1].status = 404)]_vars

\* a delete removed the record while an update of it was in flight or
\* before it; the update's UpdateCommand found no record and failed, and the
\* store still has none
C27_Witness ==
    \E s, t \in Slots :
        /\ Done(s) /\ reqs[s].op = "delete" /\ reqs[s].dbOk
        /\ ~Absent(s)
        /\ Done(t) /\ reqs[t].op = "update"
        /\ reqs[t].dbCalls = 1 /\ reqs[t].dbAnswered /\ ~reqs[t].dbOk
        /\ Target(t) = Target(s)
        /\ Absent(t)
        /\ ~reqs[t].sent[1].success
        /\ Gone(Target(s))

====
